---- MODULE Spec2Model ----
(***************************************************************************)
(* MCP connector / transport layer of simple-agent-smolagents.             *)
(*                                                                         *)
(* One MCPConnector (src/mcp/connector.py) is owned by each tool wrapper   *)
(* (src/agent_tools/*_mcp.py).  The wrapper's _send_mcp_request is the     *)
(* "call" operation; start_server / stop_server / get_server_status are    *)
(* the connector's own operations.  Child tool servers are separate OS     *)
(* processes that run concurrently with the single caller thread: they     *)
(* answer requests in order, at any time, with any content, and may exit   *)
(* on their own.                                                           *)
(***************************************************************************)
EXTENDS Integers, Sequences, FiniteSets, TLC

\* ---------------------------------------------------------------- bounds
MaxProcs == 2        \* child processes existing at one time
MaxCalls == 2        \* tools/call requests written to one child

\* ------------------------------------------------------- names and values
Wrappers     == {"excel"}                  \* ExcelMCPTool (the wrappers are alike)
Configured   == {"excel", "time"}          \* keys of mcpServers in the config
Unconfigured == {"ghost"}
AllNames     == Configured \cup Unconfigured
Pids         == 1..MaxProcs
NoProc       == 0

\* the server name a wrapper passes to start_server
ServiceOf(w) == w

\* the capitalised name a wrapper uses in its messages
Title(w) == IF w = "excel" THEN "Excel" ELSE "Time"

\* Python values that cross the wrapper boundary, tagged so that values of
\* different Python types stay comparable.
Null   == [t |-> "none", v |-> ""]
Str(s) == [t |-> "str", v |-> s]
Obj(s) == [t |-> "obj", v |-> s]

PyDict(keys, err, res) ==
    [type |-> "dict", members |-> keys, error |-> err, result |-> res]
PyInt     == [type |-> "int", members |-> {}, error |-> Null, result |-> Null]
PyStr(ms) == [type |-> "str", members |-> ms, error |-> Null, result |-> Null]
PyNone    == [type |-> "none", members |-> {}, error |-> Null, result |-> Null]

\* {"error": msg} as built by _send_mcp_request itself
ErrorDict(msg) == PyDict({"error"}, Str(msg), Null)

\* ------------------------------------------------- lines a child can write
LineResultOk    == "{\"jsonrpc\":\"2.0\",\"id\":1,\"result\":{\"ok\":true}}"
LineResultEmpty == "{\"jsonrpc\":\"2.0\",\"id\":1,\"result\":{}}"
LineError       == "{\"jsonrpc\":\"2.0\",\"id\":1,\"error\":{\"code\":-32000}}"
LineNoResult    == "{\"jsonrpc\":\"2.0\",\"id\":1}"
LineNumber      == "5"
LineString      == "\"result\""
LineGarbage     == "Starting server..."
LineBlank       == ""
LineErrorPlain  == "{\"error\":\"No response from MCP server\"}"

ChildLines == {LineResultOk, LineResultEmpty, LineError, LineNoResult,
               LineNumber, LineString, LineGarbage, LineBlank, LineErrorPlain}

\* json.loads: raised = TRUE stands for json.JSONDecodeError
json_loads(text) ==
    CASE text = LineResultOk ->
           [raised |-> FALSE,
            val |-> PyDict({"jsonrpc", "id", "result"}, Null, Obj("{\"ok\":true}"))]
      [] text = LineResultEmpty ->
           [raised |-> FALSE,
            val |-> PyDict({"jsonrpc", "id", "result"}, Null, Obj("{}"))]
      [] text = LineError ->
           [raised |-> FALSE,
            val |-> PyDict({"jsonrpc", "id", "error"}, Obj("{\"code\":-32000}"), Null)]
      [] text = LineNoResult ->
           [raised |-> FALSE, val |-> PyDict({"jsonrpc", "id"}, Null, Null)]
      [] text = LineErrorPlain ->
           [raised |-> FALSE,
            val |-> PyDict({"error"}, Str("No response from MCP server"), Null)]
      [] text = LineNumber ->
           [raised |-> FALSE, val |-> PyInt]
      [] text = LineString ->
           [raised |-> FALSE, val |-> PyStr({"result"})]
      [] OTHER ->
           [raised |-> TRUE, val |-> PyNone]

\* Python truthiness of a payload
Truthy(payload) ==
    CASE payload.t = "none" -> FALSE
      [] payload.t = "str"  -> payload.v # ""
      [] payload.t = "obj"  -> payload.v # "{}"

\* `key in value`: raises TypeError on an int
InRaises(value)  == value.type \in {"int", "none"}
In(key, value)   == key \in value.members

\* ------------------------------------------------------------ environments
\* An environment is a function from variable names to values.
NoEnv == [v \in {} |-> ""]

\* the environment the hosting process runs with
ParentEnv == [v \in {"PATH", "TOKEN"} |-> IF v = "PATH" THEN "/usr/bin" ELSE "inherited"]

\* the `env` entry of a server in the configuration file
ConfigEnv(name) ==
    IF name = "excel"
    THEN [v \in {"TOKEN", "EXTRA"} |-> IF v = "TOKEN" THEN "configured" ELSE "1"]
    ELSE NoEnv

\* an overlay in which the inherited value wins
Overlay_inherited(base, over) ==
    [v \in DOMAIN base \cup DOMAIN over |-> IF v \in DOMAIN base THEN base[v] ELSE over[v]]

\* env = os.environ.copy(); env.update(server.env)
Overlay(base, over) ==
    [v \in DOMAIN base \cup DOMAIN over |-> IF v \in DOMAIN over THEN over[v] ELSE base[v]]

\* ------------------------------------------------------------------ state
VARIABLES
    mcp_connector,      \* wrapper -> TRUE when self.mcp_connector holds a connector
    servers,            \* wrapper -> the names in connector.servers
    server_env,         \* wrapper -> (name -> the env of connector.servers[name])
    os_environ,         \* os.environ of the process that hosts the connectors
    server_started,     \* wrapper -> self._server_started
    active_processes,   \* wrapper -> (name -> pid or NoProc): connector.active_processes
    proc_state,         \* pid -> "unborn" | "running" | "exited"
    proc_name,          \* pid -> the server name whose command the child runs
    io,                 \* pid -> pipe events of the caller, in order
    stdout_q,           \* pid -> lines written by the child and not yet read
    answered,           \* pid -> number of requests the child has answered
    pc,                 \* position of the single caller thread
    cur,                \* the operation in progress
    last                \* the operation that returned last

vars == <<mcp_connector, servers, server_env, os_environ, server_started, active_processes, proc_state, proc_name,
          io, stdout_q, answered, pc, cur, last>>

procVars   == <<proc_state, proc_name, io, stdout_q, answered>>
facadeVars == <<mcp_connector, servers, server_env, os_environ, server_started,
                active_processes>>

NoCur == [from |-> "none", w |-> "", name |-> "", req |-> 0, hs |-> "", env |-> NoEnv]

NoLast ==
    [op |-> "none", w |-> "", name |-> "", ret |-> "", pid |-> NoProc,
     resp |-> PyNone, success |-> FALSE, value |-> Null, error |-> Null,
     line |-> "", gotline |-> FALSE, req |-> 0, re |-> 0, sigs |-> <<>>,
     wrote |-> FALSE, didread |-> FALSE, entryDead |-> FALSE, hs |-> "",
     out |-> "", trace |-> <<>>, again |-> FALSE, pids |-> {},
     raised |-> FALSE, names |-> {}]

\* the handle registered for name in w's connector
Handle(w, name) == active_processes[w][name]

\* `server_name in self.active_processes`
Registered(w, name) == name \in Configured /\ Handle(w, name) # NoProc

\* process.poll() is None
Alive(p) == proc_state[p] = "running"

\* requests (messages with an id) written to p so far
Requests(p) == Cardinality({i \in 1..Len(io[p]) : io[p][i] \in {"w_init", "w_call"}})
CallsWritten(p) == Cardinality({i \in 1..Len(io[p]) : io[p][i] = "w_call"})

Init ==
    /\ mcp_connector = [w \in Wrappers |-> FALSE]
    /\ servers = [w \in Wrappers |-> {}]
    /\ server_env = [w \in Wrappers |-> NoEnv]
    /\ os_environ = ParentEnv
    /\ server_started = [w \in Wrappers |-> FALSE]
    /\ active_processes = [w \in Wrappers |-> [n \in Configured |-> NoProc]]
    /\ proc_state = [p \in Pids |-> "unborn"]
    /\ proc_name = [p \in Pids |-> ""]
    /\ io = [p \in Pids |-> <<>>]
    /\ stdout_q = [p \in Pids |-> <<>>]
    /\ answered = [p \in Pids |-> 0]
    /\ pc = "idle"
    /\ cur = NoCur
    /\ last = NoLast

\* --------------------------------------------------------- child processes
\* The child answers its oldest unanswered request with one line.
ChildReply(p, text) ==
    /\ Alive(p)
    /\ answered[p] < Requests(p)
    /\ stdout_q' = [stdout_q EXCEPT ![p] = Append(@, [text |-> text, re |-> answered[p] + 1])]
    /\ answered' = [answered EXCEPT ![p] = @ + 1]
    /\ UNCHANGED <<facadeVars, proc_state, proc_name, io, pc, cur, last>>

\* p is the handle of some connector
Tracked(p) == \E w \in Wrappers, n \in Configured : active_processes[w][n] = p

\* The child exits on its own; what it wrote stays readable in the pipe.
\* A child no connector tracks leaves nothing behind.
ChildExit(p) ==
    /\ Alive(p)
    /\ proc_state' = [proc_state EXCEPT ![p] = IF Tracked(p) THEN "exited" ELSE "unborn"]
    /\ proc_name' = [proc_name EXCEPT ![p] = IF Tracked(p) THEN @ ELSE ""]
    /\ UNCHANGED <<facadeVars, io, stdout_q, answered, pc, cur, last>>

\* ------------------------------------------------------------ pipe access
\* a read that gives up after the settle delay instead of blocking
CanRead_timeout(p) == TRUE

\* process.stdout.readline() returns: a line is buffered, or the pipe is at
\* end of file because the child has exited.  Otherwise it blocks.
CanRead(p) == stdout_q[p] # <<>> \/ ~Alive(p)

\* the line readline() returns; "" at end of file
ReadLine(p) ==
    IF stdout_q[p] # <<>>
    THEN [text |-> Head(stdout_q[p]).text, re |-> Head(stdout_q[p]).re, got |-> TRUE]
    ELSE [text |-> "", re |-> 0, got |-> FALSE]

AfterRead(p) ==
    [stdout_q EXCEPT ![p] = IF @ # <<>> THEN Tail(@) ELSE @]

\* process.stdin.write + flush succeed; otherwise BrokenPipeError
CanWrite(p) == Alive(p)


\* ---------------------------------------------------------- process table
\* The part of the state that start and stop rewrite, as one value.
Table ==
    [ap |-> active_processes, ps |-> proc_state, nm |-> proc_name,
     io |-> io, q |-> stdout_q, an |-> answered, sv |-> servers,
     se |-> server_env, oe |-> os_environ]

SetTable(t) ==
    /\ servers' = t.sv
    /\ server_env' = t.se
    /\ os_environ' = t.oe
    /\ active_processes' = t.ap
    /\ proc_state' = t.ps
    /\ proc_name' = t.nm
    /\ io' = t.io
    /\ stdout_q' = t.q
    /\ answered' = t.an

\* a delete that also drops the name from connector.servers
Release_forgets(t, w, name) ==
    LET p == t.ap[w][name] IN
    [t EXCEPT !.ap[w][name] = NoProc, !.io[p] = <<>>, !.q[p] = <<>>, !.an[p] = 0,
              !.ps[p] = IF @ = "running" THEN @ ELSE "unborn",
              !.nm[p] = IF t.ps[p] = "running" THEN @ ELSE "",
              !.sv[w] = @ \ {name}]

\* `del self.active_processes[name]`: the Popen object and its pipes go;
\* a child that has exited leaves nothing behind
Release(t, w, name) ==
    LET p == t.ap[w][name] IN
    [t EXCEPT !.ap[w][name] = NoProc, !.io[p] = <<>>, !.q[p] = <<>>, !.an[p] = 0,
              !.ps[p] = IF @ = "running" THEN @ ELSE "unborn",
              !.nm[p] = IF t.ps[p] = "running" THEN @ ELSE ""]

\* process ids the OS can hand out: no live process and no handle has them
FreePids(t) ==
    {p \in Pids : /\ t.ps[p] # "running"
                  /\ \A w \in Wrappers, n \in Configured : t.ap[w][n] # p}

\* subprocess.Popen(...) succeeded and the handle is stored under name
Spawn(t, w, name) ==
    LET p == CHOOSE x \in FreePids(t) : \A y \in FreePids(t) : x <= y IN
    [t EXCEPT !.ap[w][name] = p, !.ps[p] = "running", !.nm[p] = name,
              !.io[p] = <<>>, !.q[p] = <<>>, !.an[p] = 0]

\* Popen raised and the table is left half built
AfterFailedSpawn_registered(t, w, name) ==
    LET p == CHOOSE x \in FreePids(t) : \A y \in FreePids(t) : x <= y IN
    IF FreePids(t) = {} THEN t
    ELSE [t EXCEPT !.ap[w][name] = p, !.ps[p] = "exited", !.nm[p] = name]

\* subprocess.Popen(...) raised: start_server's except branch returns False
\* with nothing stored
AfterFailedSpawn(t, w, name) == t

\* ------------------------------------------------------------ stop_server
StopOutcomes == {"graceful", "killed", "raise"}

\* what stop_server returns and did: t the table it leaves, ret its return
\* value, sigs the signals delivered, trace the calls it made, exc whether
\* an exception left it
StopResult(t, ret, sigs, trace, exc) ==
    [t |-> t, ret |-> ret, sigs |-> sigs, trace |-> trace, exc |-> exc]

\* stop_server whose except branch deletes the handle all the same
stop_server_forgets(t, w, name, outcome) ==
    IF name \notin Configured \/ t.ap[w][name] = NoProc
    THEN StopResult(t, TRUE, <<>>, <<>>, FALSE)
    ELSE LET p == t.ap[w][name] IN
         IF t.ps[p] # "running"
         THEN StopResult(Release(t, w, name), TRUE, <<>>,
                         <<"terminate", "wait5", "del">>, FALSE)
         ELSE CASE outcome = "graceful" ->
                     StopResult(Release([t EXCEPT !.ps[p] = "exited"], w, name), TRUE,
                                <<"SIGTERM">>, <<"terminate", "wait5", "del">>, FALSE)
                [] outcome = "killed" ->
                     StopResult(Release([t EXCEPT !.ps[p] = "exited"], w, name), TRUE,
                                <<"SIGTERM", "SIGKILL">>,
                                <<"terminate", "wait5", "timeout", "kill", "wait", "del">>,
                                FALSE)
                [] outcome = "raise" ->
                     StopResult(Release(t, w, name), FALSE, <<>>, <<"terminate", "del">>, FALSE)

\* stop_server that stops every server of the connector
stop_server_any(t, w, name, outcome) ==
    IF name \notin Configured \/ t.ap[w][name] = NoProc
    THEN StopResult(t, TRUE, <<>>, <<>>, FALSE)
    ELSE StopResult([t EXCEPT !.ap[w] = [n \in Configured |-> NoProc],
                              !.ps = [p \in Pids |->
                                        IF \E n \in Configured : t.ap[w][n] = p
                                        THEN "unborn" ELSE t.ps[p]],
                              !.nm = [p \in Pids |->
                                        IF \E n \in Configured : t.ap[w][n] = p
                                        THEN "" ELSE t.nm[p]],
                              !.io = [p \in Pids |->
                                        IF \E n \in Configured : t.ap[w][n] = p
                                        THEN <<>> ELSE t.io[p]],
                              !.q = [p \in Pids |->
                                        IF \E n \in Configured : t.ap[w][n] = p
                                        THEN <<>> ELSE t.q[p]],
                              !.an = [p \in Pids |->
                                        IF \E n \in Configured : t.ap[w][n] = p
                                        THEN 0 ELSE t.an[p]]],
                    TRUE, <<"SIGTERM">>, <<"terminate", "wait5", "del">>, FALSE)

\* stop_server whose except branch reports success
stop_server_quiet(t, w, name, outcome) ==
    IF name \notin Configured \/ t.ap[w][name] = NoProc
    THEN StopResult(t, TRUE, <<>>, <<>>, FALSE)
    ELSE LET p == t.ap[w][name] IN
         IF t.ps[p] # "running"
         THEN StopResult(Release(t, w, name), TRUE, <<>>,
                         <<"terminate", "wait5", "del">>, FALSE)
         ELSE CASE outcome = "graceful" ->
                     StopResult(Release([t EXCEPT !.ps[p] = "exited"], w, name), TRUE,
                                <<"SIGTERM">>, <<"terminate", "wait5", "del">>, FALSE)
                [] outcome = "killed" ->
                     StopResult(Release([t EXCEPT !.ps[p] = "exited"], w, name), TRUE,
                                <<"SIGTERM", "SIGKILL">>,
                                <<"terminate", "wait5", "timeout", "kill", "wait", "del">>,
                                FALSE)
                [] outcome = "raise" ->
                     StopResult(t, TRUE, <<>>, <<"terminate">>, FALSE)

\* stop_server that kills at once
stop_server_hard(t, w, name, outcome) ==
    IF name \notin Configured \/ t.ap[w][name] = NoProc
    THEN StopResult(t, TRUE, <<>>, <<>>, FALSE)
    ELSE LET p == t.ap[w][name] IN
         StopResult(Release([t EXCEPT !.ps[p] = "exited"], w, name), TRUE,
                    IF t.ps[p] = "running" THEN <<"SIGKILL">> ELSE <<>>,
                    <<"kill", "wait", "del">>, FALSE)

\* stop_server without its except branch
stop_server_uncaught(t, w, name, outcome) ==
    IF name \notin Configured \/ t.ap[w][name] = NoProc
    THEN StopResult(t, TRUE, <<>>, <<>>, FALSE)
    ELSE LET p == t.ap[w][name] IN
         IF t.ps[p] # "running"
         THEN StopResult(Release(t, w, name), TRUE, <<>>,
                         <<"terminate", "wait5", "del">>, FALSE)
         ELSE CASE outcome = "graceful" ->
                     StopResult(Release([t EXCEPT !.ps[p] = "exited"], w, name), TRUE,
                                <<"SIGTERM">>, <<"terminate", "wait5", "del">>, FALSE)
                [] outcome = "killed" ->
                     StopResult(Release([t EXCEPT !.ps[p] = "exited"], w, name), TRUE,
                                <<"SIGTERM", "SIGKILL">>,
                                <<"terminate", "wait5", "timeout", "kill", "wait", "del">>,
                                FALSE)
                [] outcome = "raise" ->
                     StopResult(t, FALSE, <<>>, <<"terminate">>, TRUE)

\* stop_server on w's connector, as a function of how the child and the OS
\* react: "graceful" = the child exits within the 5 s wait, "killed" = the
\* wait times out and kill() follows, "raise" = terminate() raises (the
\* except branch).  terminate() on a child that has exited sends nothing.
stop_server(t, w, name, outcome) ==
    IF name \notin Configured \/ t.ap[w][name] = NoProc
    THEN StopResult(t, TRUE, <<>>, <<>>, FALSE)
    ELSE LET p == t.ap[w][name] IN
         IF t.ps[p] # "running"
         THEN StopResult(Release(t, w, name), TRUE, <<>>,
                         <<"terminate", "wait5", "del">>, FALSE)
         ELSE CASE outcome = "graceful" ->
                     StopResult(Release([t EXCEPT !.ps[p] = "exited"], w, name), TRUE,
                                <<"SIGTERM">>, <<"terminate", "wait5", "del">>, FALSE)
                [] outcome = "killed" ->
                     StopResult(Release([t EXCEPT !.ps[p] = "exited"], w, name), TRUE,
                                <<"SIGTERM", "SIGKILL">>,
                                <<"terminate", "wait5", "timeout", "kill", "wait", "del">>,
                                FALSE)
                [] outcome = "raise" ->
                     StopResult(t, FALSE, <<>>, <<"terminate">>, FALSE)

\* the reactions open to the process registered for name; a name with no
\* running process leaves stop_server nothing to wait for
Reactions(w, name) ==
    IF Registered(w, name) /\ Alive(Handle(w, name)) THEN StopOutcomes ELSE {"none"}

\* stop_all_servers: stop_server for every key of active_processes in turn;
\* oc gives the reaction for each name.  An exception that leaves
\* stop_server ends the loop.
RECURSIVE stop_all_from(_, _, _, _)
stop_all_from(names, t, w, oc) ==
    IF names = {} THEN [t |-> t, exc |-> FALSE]
    ELSE LET n == CHOOSE x \in names : TRUE
             r == stop_server(t, w, n, oc[n])
         IN  IF r.exc THEN [t |-> r.t, exc |-> TRUE]
             ELSE stop_all_from(names \ {n}, r.t, w, oc)

stop_all_servers(t, w, oc) ==
    stop_all_from({n \in Configured : t.ap[w][n] # NoProc}, t, w, oc)

\* one reaction for every name of w's connector
AllReactions(w) ==
    {oc \in [Configured -> StopOutcomes \cup {"none"}] :
        \A n \in Configured : oc[n] \in Reactions(w, n)}

\* __del__ of a connector that is dropped while it still tracks processes:
\* the handles it could not stop are lost with it
DropConnector(t, w, oc) ==
    LET r == stop_all_servers(t, w, oc).t
        lost == {r.ap[w][n] : n \in {m \in Configured : r.ap[w][m] # NoProc}}
    IN  [r EXCEPT !.ap[w] = [n \in Configured |-> NoProc],
                  !.io = [p \in Pids |-> IF p \in lost THEN <<>> ELSE r.io[p]],
                  !.q  = [p \in Pids |-> IF p \in lost THEN <<>> ELSE r.q[p]],
                  !.an = [p \in Pids |-> IF p \in lost THEN 0 ELSE r.an[p]]]

Bool(b) == IF b THEN "true" ELSE "false"

\* --------------------------------------------------- how an operation ends
\* _ensure_server_started that goes on whatever start_server returned
StartReturns_unchecked(w, name, ok, from, p, hs) ==
    IF from = "api"
    THEN /\ pc' = "idle"
         /\ cur' = NoCur
         /\ last' = [NoLast EXCEPT !.op = "start", !.w = w, !.name = name,
                                   !.ret = Bool(ok), !.pid = p, !.hs = hs]
         /\ server_started' = server_started
    ELSE /\ pc' = "call_write"
         /\ cur' = [from |-> "call", w |-> w, name |-> name, req |-> 0, hs |-> hs,
                     env |-> NoEnv]
         /\ last' = NoLast
         /\ server_started' = [server_started EXCEPT ![w] = TRUE]

\* start_server returns ok.  Called by the facade's user it is the end of
\* the operation; called by _ensure_server_started the wrapper goes on.
StartReturns(w, name, ok, from, p, hs) ==
    IF from = "api"
    THEN /\ pc' = "idle"
         /\ cur' = NoCur
         /\ last' = [NoLast EXCEPT !.op = "start", !.w = w, !.name = name,
                                   !.ret = Bool(ok), !.pid = p, !.hs = hs]
         /\ server_started' = server_started
    ELSE IF ok
    THEN /\ pc' = "call_write"
         /\ cur' = [from |-> "call", w |-> w, name |-> name, req |-> 0, hs |-> hs,
                     env |-> NoEnv]
         /\ last' = NoLast
         /\ server_started' = [server_started EXCEPT ![w] = TRUE]
    ELSE /\ pc' = "idle"
         /\ cur' = NoCur
         /\ last' = [NoLast EXCEPT !.op = "call", !.w = w, !.name = name,
                        !.ret = "start_failed", !.success = FALSE, !.hs = hs,
                        !.resp = ErrorDict("Failed to start " \o Title(w) \o " MCP server"),
                        !.error = Str("Failed to start " \o Title(w) \o " MCP server")]
         /\ server_started' = server_started

\* start_server without its already-running test
AlreadyRunning_unchecked(t, w, name) == FALSE

\* `if server_name in self.active_processes: return True`
AlreadyRunning(t, w, name) == t.ap[w][name] # NoProc

\* start_server that reports success for a name it does not know
StartBody_unknown_ok(w, name, spawn_ok, from, t) ==
    IF name \notin t.sv[w]
    THEN /\ SetTable(t)
         /\ StartReturns(w, name, TRUE, from, NoProc, "")
    ELSE IF AlreadyRunning(t, w, name)
    THEN /\ SetTable(t)
         /\ StartReturns(w, name, TRUE, from, t.ap[w][name], "")
    ELSE IF ~spawn_ok
    THEN /\ SetTable(AfterFailedSpawn(t, w, name))
         /\ StartReturns(w, name, FALSE, from, NoProc, "nospawn")
    ELSE /\ FreePids(t) # {}
         /\ SetTable(Spawn(t, w, name))
         /\ pc' = "hs_write_init"
         /\ cur' = [from |-> from, w |-> w, name |-> name, req |-> 0, hs |-> "",
                     env |-> Overlay(t.oe, t.se[w][name])]
         /\ last' = NoLast
         /\ server_started' = server_started

\* start_server that runs the handshake again on a handle it finds
StartBody_rehandshake(w, name, spawn_ok, from, t) ==
    IF name \notin t.sv[w]
    THEN /\ SetTable(t)
         /\ StartReturns(w, name, FALSE, from, NoProc, "")
    ELSE IF AlreadyRunning(t, w, name)
    THEN /\ SetTable(t)
         /\ pc' = "hs_write_init"
         /\ cur' = [from |-> from, w |-> w, name |-> name, req |-> 0, hs |-> "",
                     env |-> NoEnv]
         /\ last' = NoLast
         /\ server_started' = server_started
    ELSE IF ~spawn_ok
    THEN /\ SetTable(AfterFailedSpawn(t, w, name))
         /\ StartReturns(w, name, FALSE, from, NoProc, "nospawn")
    ELSE /\ FreePids(t) # {}
         /\ SetTable(Spawn(t, w, name))
         /\ pc' = "hs_write_init"
         /\ cur' = [from |-> from, w |-> w, name |-> name, req |-> 0, hs |-> "",
                     env |-> Overlay(t.oe, t.se[w][name])]
         /\ last' = NoLast
         /\ server_started' = server_started

\* start_server from its entry to its first blocking point, on table t
StartBody(w, name, spawn_ok, from, t) ==
    IF name \notin t.sv[w]
    THEN /\ SetTable(t)
         /\ StartReturns(w, name, FALSE, from, NoProc, "")
    ELSE IF AlreadyRunning(t, w, name)
    THEN /\ SetTable(t)
         /\ StartReturns(w, name, TRUE, from, t.ap[w][name], "")
    ELSE IF ~spawn_ok
    THEN /\ SetTable(AfterFailedSpawn(t, w, name))
         /\ StartReturns(w, name, FALSE, from, NoProc, "nospawn")
    ELSE /\ FreePids(t) # {}
         /\ SetTable(Spawn(t, w, name))
         /\ pc' = "hs_write_init"
         /\ cur' = [from |-> from, w |-> w, name |-> name, req |-> 0, hs |-> "",
                     env |-> Overlay(t.oe, t.se[w][name])]
         /\ last' = NoLast
         /\ server_started' = server_started

\* start_server(server_name) called on w's connector
StartServer(w, name, spawn_ok) ==
    /\ pc = "idle"
    /\ mcp_connector[w]
    /\ StartBody(w, name, spawn_ok, "api", Table)
    /\ UNCHANGED mcp_connector

\* _initialize_mcp_connection returned False: start_server stops the server
\* and returns False.
HandshakeFailed(t, w, name, outcome, hs) ==
    /\ SetTable(stop_server(t, w, name, outcome).t)
    /\ StartReturns(w, name, FALSE, cur.from, NoProc, hs)

\* what kind of line the handshake read: nothing, no JSON, JSON with no
\* `result` field, or a JSON object with one
HsLineClass(text) ==
    IF text = "" THEN "empty"
    ELSE IF json_loads(text).raised THEN "invalid"
    ELSE IF json_loads(text).val.type = "dict" /\ "result" \in json_loads(text).val.members
    THEN "ok"
    ELSE "noresult"

\* the check _initialize_mcp_connection makes on the line it read
InitResponseOK(text) ==
    IF text = "" THEN TRUE
    ELSE LET r == json_loads(text) IN
         IF r.raised THEN FALSE
         ELSE IF InRaises(r.val) THEN FALSE
         ELSE In("result", r.val)

\* _initialize_mcp_connection, step 1: write the initialize request
HsWriteInit ==
    /\ pc = "hs_write_init"
    /\ LET w == cur.w
           name == cur.name
           p == Handle(w, name)
       IN  IF Registered(w, name) /\ CanWrite(p)
           THEN /\ SetTable([Table EXCEPT !.io[p] = Append(@, "w_init")])
                /\ pc' = "hs_read"
                /\ UNCHANGED <<server_started, cur, last>>
           ELSE \E outcome \in Reactions(w, name) :
                    HandshakeFailed(Table, w, name, outcome, cur.hs)
    /\ UNCHANGED mcp_connector

\* _initialize_mcp_connection: sleep, readline, validate
HsRead ==
    /\ pc = "hs_read"
    /\ LET w == cur.w
           name == cur.name
           p == Handle(w, name)
           line == ReadLine(p)
           t == [Table EXCEPT !.io[p] = Append(@, "read"), !.q = AfterRead(p)]
       IN  /\ CanRead(p)
           /\ IF InitResponseOK(line.text)
              THEN /\ SetTable(t)
                   /\ pc' = "hs_write_notif"
                   /\ cur' = [cur EXCEPT !.hs = HsLineClass(line.text)]
                   /\ UNCHANGED <<server_started, last>>
              ELSE \E outcome \in Reactions(w, name) :
                       HandshakeFailed(t, w, name, outcome, HsLineClass(line.text))
    /\ UNCHANGED mcp_connector

\* _initialize_mcp_connection, step 2: write the initialized notification
HsWriteNotif ==
    /\ pc = "hs_write_notif"
    /\ LET w == cur.w
           name == cur.name
           p == Handle(w, name)
       IN  IF CanWrite(p)
           THEN /\ SetTable([Table EXCEPT !.io[p] = Append(@, "w_notif")])
                /\ StartReturns(w, name, TRUE, cur.from, p, cur.hs)
           ELSE \E outcome \in Reactions(w, name) :
                    HandshakeFailed(Table, w, name, outcome, cur.hs)
    /\ UNCHANGED mcp_connector

\* ------------------------------------------------------- wrapper: the call
\* the default message of the wrapper operation that made the call
DefaultError(w) ==
    IF w = "excel" THEN "Failed to create workbook" ELSE "Failed to get current time"

\* `"error" not in response and response.get("result")`
ResponseIsSuccess(response) ==
    ~In("error", response) /\ Truthy(response.result)

\* a wrapper operation that reports its own message for every failure
wrapper_result_default(w, response) ==
    IF response.type # "dict"
    THEN [success |-> FALSE, value |-> Null,
          error |-> Str(Title(w) \o " operation failed"), raised |-> FALSE]
    ELSE IF ResponseIsSuccess(response)
    THEN [success |-> TRUE, value |-> response.result, error |-> Null, raised |-> FALSE]
    ELSE [success |-> FALSE, value |-> Null, error |-> Str(DefaultError(w)),
          raised |-> FALSE]

\* the wrapper operation without forward()'s except branch around it
wrapper_result_unguarded(w, response) ==
    IF response.type # "dict"
    THEN [success |-> FALSE, value |-> Null, error |-> Null, raised |-> TRUE]
    ELSE IF ResponseIsSuccess(response)
    THEN [success |-> TRUE, value |-> response.result, error |-> Null, raised |-> FALSE]
    ELSE [success |-> FALSE, value |-> Null,
          error |-> IF In("error", response) THEN response.error
                    ELSE Str(DefaultError(w)),
          raised |-> FALSE]

\* What the wrapper operation (_create_workbook, _get_current_time, ...) and
\* forward() make of the value _send_mcp_request returned.  A value that is
\* no dict makes the test raise, which forward() turns into a failure.
\* raised tells whether an exception leaves forward().
wrapper_result(w, response) ==
    IF response.type # "dict"
    THEN [success |-> FALSE, value |-> Null,
          error |-> Str(Title(w) \o " operation failed"), raised |-> FALSE]
    ELSE IF ResponseIsSuccess(response)
    THEN [success |-> TRUE, value |-> response.result, error |-> Null, raised |-> FALSE]
    ELSE [success |-> FALSE, value |-> Null,
          error |-> IF In("error", response) THEN response.error
                    ELSE Str(DefaultError(w)),
          raised |-> FALSE]

\* _send_mcp_request returns response to the wrapper operation
CallReturns(w, name, kind, response, p, line, wrote, didread, req, dead) ==
    LET fr == wrapper_result(w, response) IN
    /\ pc' = "idle"
    /\ cur' = NoCur
    /\ last' = [NoLast EXCEPT !.op = "call", !.w = w, !.name = name, !.ret = kind,
                   !.pid = p, !.resp = response,
                   !.success = fr.success, !.value = fr.value, !.error = fr.error,
                   !.raised = fr.raised,
                   !.line = line.text, !.gotline = line.got, !.re = line.re,
                   !.req = req, !.wrote = wrote, !.didread = didread,
                   !.entryDead = dead]

NoLine == [text |-> "", re |-> 0, got |-> FALSE]

\* `if "excel" not in self.mcp_connector.active_processes`
ServerNotRunning(w, name) == ~Registered(w, name)

\* _send_mcp_request after _ensure_server_started returned True: the
\* registration check, then the request line written and flushed (flush
\* raises BrokenPipeError when the child has exited).  invoked tells that
\* the wrapper operation is entered in this very step.
CallWriteBody(w, invoked) ==
    LET name == ServiceOf(w)
        p == Handle(w, name)
    IN  IF ServerNotRunning(w, name)
        THEN /\ CallReturns(w, name, "not_running",
                            ErrorDict(Title(w) \o " server not running"),
                            NoProc, NoLine, FALSE, FALSE, 0, FALSE)
             /\ UNCHANGED io
        ELSE IF CanWrite(p)
        THEN /\ CallsWritten(p) < MaxCalls
             /\ io' = [io EXCEPT ![p] = Append(@, "w_call")]
             /\ pc' = "call_read"
             /\ cur' = [from |-> "call", w |-> w, name |-> name, req |-> Requests(p) + 1,
                         hs |-> "", env |-> NoEnv]
             /\ last' = NoLast
        ELSE /\ CallReturns(w, name, "communication_error",
                            ErrorDict("MCP communication error: [Errno 32] Broken pipe"),
                            p, NoLine, TRUE, FALSE, 0, invoked)
             /\ UNCHANGED io

ConfigStates == {"ok", "missing", "malformed"}

\* load_config that takes an unreadable file for an empty configuration
load_config_lenient(cfg) ==
    IF cfg = "ok" THEN [raised |-> "", servers |-> Configured]
    ELSE [raised |-> "", servers |-> {}]

\* load_config: the exception it raises ("" for none) and the names it
\* stored in self.servers
load_config(cfg) ==
    CASE cfg = "missing"   -> [raised |-> "FileNotFoundError", servers |-> {}]
      [] cfg = "malformed" -> [raised |-> "JSONDecodeError", servers |-> {}]
      [] OTHER             -> [raised |-> "", servers |-> Configured]

\* _ensure_server_started when _server_started is unset.  cfg is what
\* load_config finds, spawn_ok whether Popen can launch the command, oc how
\* the processes of the connector that is replaced react to its stop_all.
EnsureServerStarted(w, cfg, spawn_ok, oc) ==
    LET r == load_config(cfg) IN
    IF r.raised # ""
    THEN /\ StartReturns(w, ServiceOf(w), FALSE, "call", NoProc, r.raised)
         /\ UNCHANGED <<mcp_connector, servers, server_env, os_environ,
                        active_processes, procVars>>
    ELSE /\ mcp_connector' = [mcp_connector EXCEPT ![w] = TRUE]
         /\ StartBody(w, ServiceOf(w), spawn_ok, "call",
                      [DropConnector(Table, w, oc) EXCEPT
                          !.sv[w] = r.servers,
                          !.se[w] = [n \in r.servers |-> ConfigEnv(n)]])

\* _send_mcp_request(method, params) of wrapper w with the server not yet
\* started by this wrapper
SendMcpRequestStart(w, cfg, spawn_ok, oc) ==
    /\ pc = "idle"
    /\ ~server_started[w]
    /\ EnsureServerStarted(w, cfg, spawn_ok, oc)

\* a _send_mcp_request that starts the server again when its child is gone
SendMcpRequest_recovering(w) ==
    /\ pc = "idle"
    /\ server_started[w]
    /\ IF Registered(w, ServiceOf(w)) /\ Alive(Handle(w, ServiceOf(w)))
       THEN /\ CallWriteBody(w, TRUE)
            /\ UNCHANGED <<facadeVars, proc_state, proc_name, stdout_q, answered>>
       ELSE /\ StartBody(w, ServiceOf(w), TRUE, "call",
                         IF Registered(w, ServiceOf(w))
                         THEN Release(Table, w, ServiceOf(w)) ELSE Table)
            /\ UNCHANGED mcp_connector

\* _send_mcp_request(method, params) of wrapper w with _server_started set
SendMcpRequest(w) ==
    /\ pc = "idle"
    /\ server_started[w]
    /\ CallWriteBody(w, TRUE)
    /\ UNCHANGED <<facadeVars, proc_state, proc_name, stdout_q, answered>>

\* the wrapper continues after a start it made itself
CallWrite ==
    /\ pc = "call_write"
    /\ CallWriteBody(cur.w, FALSE)
    /\ UNCHANGED <<facadeVars, proc_state, proc_name, stdout_q, answered>>

\* _send_mcp_request that reports a line it cannot parse as no response
CallResponse_lenient(text) ==
    IF text = "" \/ json_loads(text).raised
    THEN [kind |-> "no_response", val |-> ErrorDict("No response from MCP server")]
    ELSE [kind |-> "response", val |-> json_loads(text).val]

\* what _send_mcp_request makes of the line it read
CallResponse(text) ==
    IF text = "" THEN [kind |-> "no_response",
                       val |-> ErrorDict("No response from MCP server")]
    ELSE IF json_loads(text).raised
    THEN [kind |-> "invalid_response",
          val |-> ErrorDict("Invalid JSON response: " \o text)]
    ELSE [kind |-> "response", val |-> json_loads(text).val]

\* a _send_mcp_request that writes its request again after an empty read
CallRead_retry ==
    /\ pc = "call_read"
    /\ LET w == cur.w
           name == cur.name
           p == Handle(w, name)
           line == ReadLine(p)
           r == CallResponse(line.text)
       IN  /\ CanRead(p)
           /\ io' = [io EXCEPT ![p] = Append(@, "read")]
           /\ stdout_q' = AfterRead(p)
           /\ IF r.kind = "no_response" /\ CallsWritten(p) < MaxCalls
              THEN pc' = "call_write" /\ UNCHANGED <<cur, last>>
              ELSE CallReturns(w, name, r.kind, r.val, p, line, TRUE, TRUE, cur.req, FALSE)
    /\ UNCHANGED <<facadeVars, proc_state, proc_name, answered>>

\* _send_mcp_request: sleep, readline, parse
CallRead ==
    /\ pc = "call_read"
    /\ LET w == cur.w
           name == cur.name
           p == Handle(w, name)
           line == ReadLine(p)
           r == CallResponse(line.text)
       IN  /\ CanRead(p)
           /\ io' = [io EXCEPT ![p] = Append(@, "read")]
           /\ stdout_q' = AfterRead(p)
           /\ CallReturns(w, name, r.kind, r.val, p, line, TRUE, TRUE, cur.req, FALSE)
    /\ UNCHANGED <<facadeVars, proc_state, proc_name, answered>>

\* ----------------------------------------------------- connector: the rest
\* stop_server(server_name) called on w's connector
StopServer(w, name, outcome) ==
    /\ pc = "idle"
    /\ mcp_connector[w]
    /\ LET r == stop_server(Table, w, name, outcome)
       IN  /\ SetTable(r.t)
           /\ last' = [NoLast EXCEPT !.op = "stop", !.w = w, !.name = name,
                          !.ret = IF r.exc THEN "raised" ELSE Bool(r.ret),
                          !.sigs = r.sigs, !.trace = r.trace, !.out = outcome,
                          !.again = (last.op = "stop" /\ last.w = w /\ last.name = name),
                          !.pid = IF name \in Configured THEN Handle(w, name) ELSE NoProc]
    /\ UNCHANGED <<mcp_connector, server_started, pc, cur>>

\* the process handles w's connector holds
HandlesOf(w) == {Handle(w, n) : n \in {m \in Configured : Registered(w, m)}}

\* stop_all_servers() called on w's connector
StopAllServers(w, oc) ==
    /\ pc = "idle"
    /\ mcp_connector[w]
    /\ LET r == stop_all_servers(Table, w, oc)
       IN  /\ SetTable(r.t)
           /\ last' = [NoLast EXCEPT !.op = "stop_all", !.w = w,
                          !.ret = IF r.exc THEN "raised" ELSE "none",
                          !.pids = HandlesOf(w)]
    /\ UNCHANGED <<mcp_connector, server_started, pc, cur>>

\* The wrapper is destroyed: its __del__ stops its own server when it had
\* started one, ignoring any error, then the connector it held is destroyed
\* and its __del__ runs stop_all_servers.  The next use is a new wrapper.
Teardown(w, oc) ==
    /\ pc = "idle"
    /\ mcp_connector[w]
    /\ LET own == IF server_started[w]
                  THEN stop_server(Table, w, ServiceOf(w), oc[ServiceOf(w)]).t
                  ELSE Table
           r == stop_all_servers(own, w, oc)
       IN  /\ SetTable([DropConnector(own, w, oc) EXCEPT !.sv[w] = {}, !.se[w] = NoEnv])
           /\ last' = [NoLast EXCEPT !.op = "teardown", !.w = w,
                          !.ret = IF r.exc THEN "raised" ELSE "none",
                          !.pids = HandlesOf(w)]
    /\ mcp_connector' = [mcp_connector EXCEPT ![w] = FALSE]
    /\ server_started' = [server_started EXCEPT ![w] = FALSE]
    /\ UNCHANGED <<pc, cur>>

\* get_server_status without the poll
StatusValue_unpolled(w, name) ==
    IF name \notin servers[w] THEN "not_configured"
    ELSE IF ~Registered(w, name) THEN "stopped"
    ELSE "running"

\* get_server_status that takes an unknown name for a stopped server
StatusValue_lax(w, name) ==
    IF ~Registered(w, name) THEN "stopped"
    ELSE IF Alive(Handle(w, name)) THEN "running"
    ELSE "stopped"

\* the value get_server_status returns
StatusValue(w, name) ==
    IF name \notin servers[w] THEN "not_configured"
    ELSE IF ~Registered(w, name) THEN "stopped"
    ELSE IF Alive(Handle(w, name)) THEN "running"
    ELSE "stopped"

\* get_server_status(server_name) called on w's connector: a registered
\* process that has exited is removed from active_processes
GetServerStatus(w, name) ==
    /\ pc = "idle"
    /\ mcp_connector[w]
    /\ SetTable(IF Registered(w, name) /\ ~Alive(Handle(w, name))
                THEN Release(Table, w, name)
                ELSE Table)
    /\ last' = [NoLast EXCEPT !.op = "status", !.w = w, !.name = name,
                   !.ret = StatusValue(w, name),
                   !.pid = IF name \in Configured THEN Handle(w, name) ELSE NoProc]
    /\ UNCHANGED <<mcp_connector, server_started, pc, cur>>

\* the registered names whose process has exited
DeadNames(w) == {n \in Configured : Registered(w, n) /\ ~Alive(Handle(w, n))}

\* list_active_servers() called on w's connector.  The loop runs over the
\* keys of active_processes while get_server_status deletes the key of a
\* process that has exited: the dict changes size under its iterator and the
\* next step of the loop raises RuntimeError.  d is the first such name in
\* the order of the dict.
ListActiveServers(w, d) ==
    /\ pc = "idle"
    /\ mcp_connector[w]
    /\ IF DeadNames(w) = {}
       THEN /\ d = ""
            /\ SetTable(Table)
            /\ last' = [NoLast EXCEPT !.op = "list_active", !.w = w, !.ret = "list",
                           !.names = {n \in Configured : Registered(w, n)}]
       ELSE /\ d \in DeadNames(w)
            /\ SetTable(Release(Table, w, d))
            /\ last' = [NoLast EXCEPT !.op = "list_active", !.w = w, !.name = d,
                           !.ret = "raised", !.raised = TRUE]
    /\ UNCHANGED <<mcp_connector, server_started, pc, cur>>

\* list_servers() called on w's connector
ListServers(w) ==
    /\ pc = "idle"
    /\ mcp_connector[w]
    /\ last' = [NoLast EXCEPT !.op = "list_servers", !.w = w, !.ret = "list",
                   !.names = servers[w]]
    /\ UNCHANGED <<facadeVars, procVars, pc, cur>>

\* get_server_info(server_name) called on w's connector: the entry, or None
GetServerInfo(w, name) ==
    /\ pc = "idle"
    /\ mcp_connector[w]
    /\ last' = [NoLast EXCEPT !.op = "get_server_info", !.w = w, !.name = name,
                   !.ret = IF name \in servers[w] THEN "entry" ELSE "none"]
    /\ UNCHANGED <<facadeVars, procVars, pc, cur>>

\* ------------------------------------------------------------ the system
FacadeStep ==
    \/ \E w \in Wrappers, name \in AllNames, spawn_ok \in BOOLEAN :
          StartServer(w, name, spawn_ok)
    \/ \E w \in Wrappers, name \in AllNames :
          \E outcome \in Reactions(w, name) : StopServer(w, name, outcome)
    \/ \E w \in Wrappers, name \in AllNames : GetServerStatus(w, name)
    \/ \E w \in Wrappers : \E oc \in AllReactions(w) : StopAllServers(w, oc)
    \/ \E w \in Wrappers : \E oc \in AllReactions(w) : Teardown(w, oc)
    \/ \E w \in Wrappers, d \in Configured \cup {""} : ListActiveServers(w, d)
    \/ \E w \in Wrappers : ListServers(w)
    \/ \E w \in Wrappers, name \in AllNames : GetServerInfo(w, name)
    \/ \E w \in Wrappers, cfg \in ConfigStates, spawn_ok \in BOOLEAN :
          \E oc \in AllReactions(w) : SendMcpRequestStart(w, cfg, spawn_ok, oc)
    \/ \E w \in Wrappers : SendMcpRequest(w)
    \/ HsWriteInit
    \/ HsRead
    \/ HsWriteNotif
    \/ CallWrite
    \/ CallRead

ChildStep ==
    \/ \E p \in Pids, text \in ChildLines : ChildReply(p, text)
    \/ \E p \in Pids : ChildExit(p)

Next == FacadeStep \/ ChildStep

Spec == Init /\ [][Next]_vars

\* The caller thread runs whenever it is not blocked in a system call; the
\* children are under no obligation to write or to exit.
FairSpec == Spec /\ WF_vars(FacadeStep)

\* ================================================================= claims
\* the handles of w's connector that run name's command
HandlesFor(w, name) ==
    {p \in Pids : /\ proc_name[p] = name
                  /\ \E n \in Configured : active_processes[w][n] = p}

\* C1: a connector holds at most one process handle per server name (the
\* handle stored under a name is a spawned process running that name's
\* command, and no process is stored under two names), and start_server on
\* a name that has a handle spawns nothing, leaves the handle and every
\* process untouched and returns True.
C1_OneHandlePerName ==
    /\ [](\A w \in Wrappers, n \in Configured :
            /\ Cardinality(HandlesFor(w, n)) <= 1
            /\ Registered(w, n) =>
                 /\ proc_state[Handle(w, n)] # "unborn"
                 /\ HandlesFor(w, n) = {Handle(w, n)})
    /\ [][\A w \in Wrappers, n \in Configured :
            (Registered(w, n) /\ \E ok \in BOOLEAN : StartServer(w, n, ok))
               => /\ UNCHANGED <<active_processes, procVars>>
                  /\ pc' = "idle"
                  /\ last'.op = "start" /\ last'.ret = "true"
                  /\ last'.pid = Handle(w, n)]_vars

\* start_server returned True for a handle that had already served a call
C1_Witness ==
    /\ last.op = "start" /\ last.ret = "true"
    /\ Registered(last.w, last.name)
    /\ CallsWritten(Handle(last.w, last.name)) > 0

\* the first three pipe events of a process are the completed handshake
HandshakeDone(trace) ==
    /\ Len(trace) >= 3
    /\ trace[1] = "w_init" /\ trace[2] = "read" /\ trace[3] = "w_notif"

\* C2: on every child's pipes the initialize request is written first, one
\* line is then read, the initialized notification is written third, and a
\* tools/call request is written only after those three.
C2_CallOnlyAfterHandshake ==
    \A p \in Pids : \A i \in 1..Len(io[p]) :
        /\ io[p][i] = "w_init"  => i = 1
        /\ io[p][i] = "w_notif" => i = 3 /\ io[p][1] = "w_init" /\ io[p][2] = "read"
        /\ io[p][i] = "w_call"  => i > 3 /\ HandshakeDone(io[p])

C4_EmptyInitReadFailsStart ==
    /\ (last.op = "start" /\ last.hs = "empty") => last.ret = "false"
    /\ ~(pc = "call_write" /\ cur.hs = "empty")

\* C5: when the line read after the initialize request is no JSON or is
\* JSON with no `result` field, the handshake goes no further, start
\* returns failure, and afterwards no handle is registered for the name and
\* the process spawned for it is gone.
C5_BadInitLineStopsServer ==
    /\ ~(pc \in {"hs_write_notif", "call_write"} /\ cur.hs \in {"invalid", "noresult"})
    /\ (last.op \in {"start", "call"} /\ last.hs \in {"invalid", "noresult"}) =>
          /\ last.ret \in {"false", "start_failed"}
          /\ ~Registered(last.w, last.name)
          /\ \A p \in Pids : ~(Alive(p) /\ proc_name[p] = last.name)

\* C6: when the line a call read is a JSON object, an `error` field makes
\* the wrapper report a failure that carries that error payload, and
\* otherwise the wrapper reports success with the `result` payload,
\* whatever that payload is.
C6_ErrorFailsElseResultSucceeds ==
    (/\ last.op = "call" /\ last.ret = "response"
     /\ last.resp.type = "dict"
     /\ last.resp.members \cap {"error", "result"} # {})
    => IF "error" \in last.resp.members
       THEN ~last.success /\ last.error = last.resp.error
       ELSE last.success /\ last.value = last.resp.result

\* C7: every start and every call returns to its caller, also when the
\* child stays alive and writes nothing.
C7_OperationsReturn == (pc # "idle") ~> (pc = "idle")

\* C8 as claimed: a call that read no line fails with NoResponse, the
\* handle stays registered and get_server_status then returns "running".
C8_NoResponseKeepsRunning ==
    (last.op = "call" /\ last.ret = "no_response") =>
        /\ ~last.success /\ last.error = Str("No response from MCP server")
        /\ Registered(last.w, last.name)
        /\ StatusValue(last.w, last.name) = "running"

\* C8 amended: a call that read no line fails with NoResponse and leaves
\* the handle it used registered; get_server_status then returns "running"
\* when the child is still alive and "stopped" when the empty read was the
\* end of file of a child that has exited.
C8_NoResponseKeepsHandle ==
    (last.op = "call" /\ last.ret = "no_response") =>
        /\ ~last.success /\ last.error = Str("No response from MCP server")
        /\ Registered(last.w, last.name)
        /\ Handle(last.w, last.name) = last.pid
        /\ StatusValue(last.w, last.name) =
              (IF Alive(last.pid) THEN "running" ELSE "stopped")

\* a call read a blank line from a child that is still running
C8_Witness ==
    /\ last.op = "call" /\ last.ret = "no_response" /\ last.gotline
    /\ Alive(last.pid)
    /\ StatusValue(last.w, last.name) = "running"

\* C9: a call made when the registered child has already exited fails with
\* "server not running" and touches neither pipe.
C9_DeadChildNoIO ==
    (last.op = "call" /\ last.entryDead) =>
        /\ last.ret = "not_running"
        /\ ~last.wrote /\ ~last.didread

\* C10: when start_server returns True, get_server_status called next
\* returns "running".
C10_StartedMeansRunning ==
    [][(/\ pc' = "idle"
        /\ last'.op = "start" /\ last'.ret = "true"
        /\ (last' # last \/ pc # "idle"))
       => (StatusValue(last.w, last.name) = "running")']_vars

\* C11: once stop_server has returned for a configured name, no handle is
\* registered for the name, the process that was registered has exited and
\* get_server_status returns "stopped".
C11_StoppedAfterStop ==
    (last.op = "stop" /\ last.name \in Configured) =>
        /\ ~Registered(last.w, last.name)
        /\ StatusValue(last.w, last.name) = "stopped"
        /\ last.pid # NoProc => ~Alive(last.pid)

\* C12: start_server never returns True for a name whose registered
\* process has already exited.
C12_DeadHandleNotReused ==
    [][\A w \in Wrappers, n \in Configured :
          (/\ Registered(w, n) /\ ~Alive(Handle(w, n))
           /\ \E ok \in BOOLEAN : StartServer(w, n, ok))
          => last'.ret # "true"]_vars

\* the elements of a sequence
Elems(seq) == {seq[i] : i \in 1..Len(seq)}

\* C13: stop_server on a registered handle calls terminate first, then
\* waits up to 5 s; kill and the unbounded wait follow only a wait that
\* timed out; the handle is deleted last, after a wait that returned, with
\* the process no longer running.  A child that exits within the 5 s is
\* sent no SIGKILL.
C13_TerminateThenKill ==
    (last.op = "stop" /\ last.pid # NoProc) =>
        LET tr == last.trace IN
        /\ tr # <<>> /\ tr[1] = "terminate"
        /\ \A i \in 1..Len(tr) :
              /\ tr[i] = "wait5"   => i = 2
              /\ tr[i] = "timeout" => i = 3
              /\ tr[i] = "kill"    => i = 4 /\ tr[3] = "timeout" /\ Len(tr) >= 5
              /\ tr[i] = "wait"    => i = 5 /\ tr[4] = "kill"
              /\ tr[i] = "del"     => /\ i = Len(tr) /\ i > 1
                                      /\ tr[i - 1] \in {"wait5", "wait"}
                                      /\ ~Alive(last.pid)
        /\ "SIGKILL" \in Elems(last.sigs) => last.sigs = <<"SIGTERM", "SIGKILL">>
        /\ last.out = "graceful" => "SIGKILL" \notin Elems(last.sigs) /\ "kill" \notin Elems(tr)
        /\ ~Registered(last.w, last.name) => ~Alive(last.pid) /\ "del" \in Elems(tr)

\* stop_server had to kill a child that ignored SIGTERM for 5 s
C13_Witness ==
    /\ last.op = "stop" /\ last.pid # NoProc /\ last.out = "killed"
    /\ last.sigs = <<"SIGTERM", "SIGKILL">>
    /\ ~Registered(last.w, last.name)

\* C14: a stop_server that directly follows a stop_server of the same name
\* does not fail, and stop_server on a name that has no registered handle
\* returns True, sends no signal and changes nothing.
C14_StopIsIdempotent ==
    /\ [](/\ (last.op = "stop" /\ last.again) => last.ret = "true"
          /\ (last.op = "stop" /\ last.pid = NoProc) =>
                 last.ret = "true" /\ last.sigs = <<>> /\ last.trace = <<>>)
    /\ [][\A w \in Wrappers, n \in AllNames :
            (~Registered(w, n) /\ \E o \in Reactions(w, n) : StopServer(w, n, o))
               => UNCHANGED <<facadeVars, procVars>>]_vars

\* C15: when stop_all_servers has returned, the connector's
\* active_processes is empty and every process it held has exited.
C15_StopAllLeavesNothing ==
    last.op = "stop_all" =>
        /\ \A n \in Configured : ~Registered(last.w, n)
        /\ \A p \in last.pids : ~Alive(p)

\* C16: when the wrapper and its connector have been destroyed, every
\* process the connector held has exited.
C16_TeardownStopsAll ==
    last.op = "teardown" => \A p \in last.pids : ~Alive(p)

\* C17: stop_server, stop_all_servers and the destructors return normally
\* whatever happens while a process is terminated or waited for; a
\* stop_server in which terminating failed returns False.
C17_CleanupNeverRaises ==
    /\ last.op \in {"stop", "stop_all", "teardown"} => last.ret # "raised"
    /\ (last.op = "stop" /\ last.out = "raise") => last.ret = "false"

\* terminate() raised inside stop_server and stop_server returned False
C17_Witness ==
    /\ last.op = "stop" /\ last.out = "raise" /\ last.ret = "false"
    /\ Registered(last.w, last.name) /\ Alive(last.pid)

\* C18: the first call of a wrapper starts its server before it writes:
\* when the wrapper comes to write its request the server's handle is
\* registered and the pipe has seen exactly the handshake (initialize
\* written, one line read, initialized written); and when the start failed
\* the call returns the failure and no tools/call request has been written
\* to any process.
C18_AutoStartBeforeRequest ==
    /\ pc = "call_write" =>
          /\ Registered(cur.w, cur.name)
          /\ io[Handle(cur.w, cur.name)] = <<"w_init", "read", "w_notif">>
    /\ (last.op = "call" /\ last.ret = "start_failed") =>
          /\ ~last.success /\ ~last.wrote /\ ~last.didread
          /\ last.error = Str("Failed to start " \o Title(last.w) \o " MCP server")
          /\ \A p \in Pids : CallsWritten(p) = 0

\* a first call wrote its request to the server it had just started
C18_Witness ==
    /\ pc = "call_read" /\ cur.req = 2
    /\ io[Handle(cur.w, cur.name)] = <<"w_init", "read", "w_notif", "w_call">>

\* C19: a call made while no handle is registered for the wrapper's server
\* starts the server; it ends without a process to talk to only when that
\* start failed.
C19_CallRestartsStoppedServer ==
    (last.op = "call" /\ last.pid = NoProc) => last.ret = "start_failed"

\* C20: when the line a call read is not empty and is no JSON, the call
\* returns the invalid-response error with the text of the line in it, the
\* handle it used stays registered, and that read is the only one the call
\* made.
C20_InvalidJsonKeepsRawText ==
    (last.op = "call" /\ last.gotline /\ last.line # "" /\ json_loads(last.line).raised) =>
        /\ last.ret = "invalid_response"
        /\ ~last.success
        /\ last.error = Str("Invalid JSON response: " \o last.line)
        /\ Registered(last.w, last.name) /\ Handle(last.w, last.name) = last.pid
        /\ LET tr == io[last.pid] IN
              /\ Len(tr) >= 2
              /\ tr[Len(tr) - 1] = "w_call" /\ tr[Len(tr)] = "read"

\* a call read a line of log output instead of a JSON-RPC response
C20_Witness ==
    /\ last.op = "call" /\ last.ret = "invalid_response"
    /\ last.line = LineGarbage /\ Alive(last.pid)

\* the values _send_mcp_request returns for a failure of its own
TransportErrors(w) ==
    {ErrorDict("Failed to start " \o Title(w) \o " MCP server"),
     ErrorDict(Title(w) \o " server not running"),
     ErrorDict("No response from MCP server"),
     ErrorDict("MCP communication error: [Errno 32] Broken pipe")}
    \cup {ErrorDict("Invalid JSON response: " \o text) : text \in ChildLines}

\* C21: the value a call returns when the child answered with a JSON
\* `error` object differs from every value a call returns for a failure of
\* the transport, whatever the child put in `error`.
C21_RemoteErrorDistinct ==
    (/\ last.op = "call" /\ last.ret = "response"
     /\ last.resp.type = "dict" /\ "error" \in last.resp.members)
    => last.resp \notin TransportErrors(last.w)

\* the ways a call ends without a usable answer
FailureKinds ==
    {"start_failed", "not_running", "communication_error", "no_response",
     "invalid_response"}

\* C22: no exception leaves forward(); and when the start, the handshake or
\* the exchange failed, or the child answered with an error or with a value
\* that is no JSON object, forward() returns success = False with an error.
C22_ForwardNeverRaises ==
    last.op = "call" =>
        /\ ~last.raised
        /\ (\/ last.ret \in FailureKinds
            \/ last.resp.type # "dict"
            \/ "error" \in last.resp.members)
           => ~last.success /\ last.error # Null
        /\ last.success => last.ret = "response" /\ last.value # Null

\* the child answered with a JSON number; the TypeError of the wrapper
\* operation ended as a failure value
C22_Witness ==
    /\ last.op = "call" /\ last.ret = "response" /\ last.resp.type = "int"
    /\ ~last.success /\ last.error = Str(Title(last.w) \o " operation failed")

\* C23: with the configuration file missing load_config raises
\* FileNotFoundError, with a file that is no JSON it raises JSONDecodeError;
\* the connector is then not constructed, the wrapper's start fails, and no
\* process is spawned or touched.
C23_ConfigErrorsFailConstruction ==
    /\ [](last.hs \in {"FileNotFoundError", "JSONDecodeError"} =>
             last.op = "call" /\ last.ret = "start_failed" /\ ~last.success)
    /\ [][\A w \in Wrappers, cfg \in {"missing", "malformed"}, ok \in BOOLEAN :
            (\E oc \in AllReactions(w) : SendMcpRequestStart(w, cfg, ok, oc))
               => /\ last'.hs = (IF cfg = "missing" THEN "FileNotFoundError"
                                 ELSE "JSONDecodeError")
                  /\ pc' = "idle"
                  /\ UNCHANGED <<facadeVars, procVars>>]_vars

\* a wrapper whose configuration file is missing failed its call
C23_Witness ==
    /\ last.op = "call" /\ last.hs = "FileNotFoundError"
    /\ ~mcp_connector[last.w] /\ servers[last.w] = {}

\* C24: when Popen cannot launch the command, start_server returns False,
\* active_processes is what it was and no process was created.
C24_SpawnFailureLeavesNothing ==
    /\ [](last.hs = "nospawn" =>
             /\ last.ret \in {"false", "start_failed"}
             /\ ~Registered(last.w, last.name)
             /\ \A p \in Pids : Tracked(p) => proc_name[p] # last.name)
    /\ [][\A w \in Wrappers, n \in Configured :
            (~Registered(w, n) /\ StartServer(w, n, FALSE))
               => /\ last'.ret = "false" /\ last'.hs = "nospawn"
                  /\ pc' = "idle"
                  /\ UNCHANGED <<facadeVars, procVars>>]_vars

\* start_server failed to launch one server while another one was running
C24_Witness ==
    /\ last.op = "start" /\ last.hs = "nospawn" /\ last.ret = "false"
    /\ \E n \in Configured : n # last.name /\ Registered(last.w, n) /\ Alive(Handle(last.w, n))

\* the wrapper's call replaces its connector by a new one
Replaces(w) ==
    \E cfg \in ConfigStates, ok \in BOOLEAN :
        \E oc \in AllReactions(w) : SendMcpRequestStart(w, cfg, ok, oc)

\* the caller thread took a step of an operation on server name
OperatesOn(name) ==
    /\ <<pc, cur, last>>' # <<pc, cur, last>>
    /\ IF pc' = "idle"
       THEN last'.op \in {"start", "stop", "status", "call"} /\ last'.name = name
       ELSE cur'.name = name

C26_StatusIsExact ==
    [][\A w \in Wrappers, name \in AllNames :
          GetServerStatus(w, name) =>
             /\ last'.ret = (IF name \notin servers[w] THEN "not_configured"
                             ELSE IF Registered(w, name) /\ Alive(Handle(w, name))
                                  THEN "running"
                                  ELSE "stopped")
             /\ IF Registered(w, name) /\ ~Alive(Handle(w, name))
                THEN /\ ~Registered(w, name)'
                     /\ \A n \in Configured \ {name} : Handle(w, n)' = Handle(w, n)
                     /\ \A p \in Pids \ {Handle(w, name)} :
                           /\ proc_state'[p] = proc_state[p]
                           /\ io'[p] = io[p] /\ stdout_q'[p] = stdout_q[p]
                ELSE UNCHANGED <<active_processes, procVars>>
             /\ UNCHANGED <<mcp_connector, servers, server_started, pc, cur>>]_vars

\* get_server_status found a process that had exited and deleted its handle
C26_Witness ==
    /\ last.op = "status" /\ last.ret = "stopped" /\ last.pid # NoProc
    /\ ~Registered(last.w, last.name)

\* the wrapper and its connector are destroyed
TornDown(w) == \E oc \in AllReactions(w) : Teardown(w, oc)

\* C27: the names in servers are those load_config stored for as long as
\* the connector exists: no operation adds or removes one, and list_servers
\* and get_server_info change nothing at all.
C27_RegistryReadOnly ==
    /\ [](\A w \in Wrappers : mcp_connector[w] => servers[w] = Configured)
    /\ [][\A w \in Wrappers :
            /\ (mcp_connector[w] /\ ~TornDown(w)) => servers'[w] = servers[w]
            /\ (ListServers(w) \/ \E n \in AllNames : GetServerInfo(w, n))
                  => UNCHANGED <<facadeVars, procVars, pc, cur>>]_vars

\* list_servers returned every configured name after a server had been
\* started and stopped again
C27_Witness ==
    /\ last.op = "list_servers" /\ last.names = Configured
    /\ server_started[last.w] /\ ~Registered(last.w, ServiceOf(last.w))

\* how many times event ev was written to or read from p's pipes
Count(p, ev) == Cardinality({i \in 1..Len(io[p]) : io[p][i] = ev})

\* C28: a process is sent the initialize request at most once and the
\* initialized notification at most once, as the first and the third event
\* on its pipes; both are written by the handshake steps of the start that
\* spawned it and by no other step.
C28_HandshakeOncePerProcess ==
    /\ [](\A p \in Pids :
             /\ Count(p, "w_init") <= 1 /\ Count(p, "w_notif") <= 1
             /\ \A i \in 1..Len(io[p]) :
                   /\ io[p][i] = "w_init" => i = 1
                   /\ io[p][i] = "w_notif" => i = 3)
    /\ [][\A p \in Pids :
            (\/ Count(p, "w_init")' > Count(p, "w_init")
             \/ Count(p, "w_notif")' > Count(p, "w_notif"))
            => /\ pc \in {"hs_write_init", "hs_write_notif"}
               /\ Handle(cur.w, cur.name) = p]_vars

\* start_server was repeated on a process that had its handshake and a call
C28_Witness ==
    /\ last.op = "start" /\ last.ret = "true" /\ last.pid # NoProc
    /\ Count(last.pid, "w_init") = 1 /\ Count(last.pid, "w_notif") = 1
    /\ Count(last.pid, "w_call") >= 1

\* C29: list_active_servers never raises, and it returns the registered
\* names whose process has not exited.
C29_ListActiveCompletes ==
    /\ [](last.op = "list_active" => last.ret # "raised")
    /\ [][\A w \in Wrappers, d \in Configured \cup {""} :
            ListActiveServers(w, d) =>
               last'.names = {n \in Configured : Registered(w, n) /\ Alive(Handle(w, n))}]_vars

WrapperStep ==
    \/ pc' # "idle" /\ cur'.from = "call" /\ <<pc, cur>>' # <<pc, cur>>
    \/ pc' = "idle" /\ last'.op = "call" /\ <<pc, last>>' # <<pc, last>>

\* C31: once a wrapper has started its server, _server_started stays set
\* for as long as the wrapper lives and no step of a call of that wrapper
\* starts a process; a call made when the server's process has exited, or
\* when no handle is registered any more, returns a failure.
C31_NoRecoveryAfterChildDeath ==
    /\ []((last.op = "call" /\ (last.entryDead \/ last.ret = "not_running")) =>
             ~last.success /\ last.error # Null /\ server_started[last.w])
    /\ [][\A w \in Wrappers :
            (server_started[w] /\ ~TornDown(w)) =>
               /\ server_started'[w]
               /\ WrapperStep => \A p \in Pids : Alive(p)' => Alive(p)]_vars

\* a call found the child it had started dead and failed on its pipe
C31_Witness ==
    /\ last.op = "call" /\ last.entryDead /\ last.ret = "communication_error"
    /\ server_started[last.w] /\ ~Alive(last.pid)

\* C32: when the JSON object a call read has an `error` field, the failure
\* the wrapper returns has the value of that field, as parsed from the
\* line, as its error.
C32_RemoteErrorPassedThrough ==
    (/\ last.op = "call" /\ last.didread /\ last.gotline
     /\ ~json_loads(last.line).raised
     /\ json_loads(last.line).val.type = "dict"
     /\ "error" \in json_loads(last.line).val.members)
    => /\ ~last.success /\ last.value = Null
       /\ last.error = json_loads(last.line).val.error

\* the child answered with a JSON-RPC error object
C32_Witness ==
    /\ last.op = "call" /\ last.line = LineError
    /\ last.error = Obj("{\"code\":-32000}")

\* C33: the exchange of one call is one request written and then one line
\* read: the read follows a request written in the step before it, the
\* step after the read returns to the caller whatever was read, no step
\* adds more than one event to a pipe, and no step of the exchange starts
\* a process or changes a handle.
C33_NoAutomaticRetry ==
    /\ [](pc = "call_read" =>
             LET tr == io[Handle(cur.w, cur.name)] IN
             tr # <<>> /\ tr[Len(tr)] = "w_call")
    /\ []((last.op = "call" /\ last.didread) =>
             LET tr == io[last.pid] IN
             Len(tr) >= 2 /\ tr[Len(tr) - 1] = "w_call" /\ tr[Len(tr)] = "read")
    /\ [][/\ \A p \in Pids : Len(io'[p]) <= Len(io[p]) + 1
          /\ (pc = "call_read" /\ pc' # pc) => pc' = "idle" /\ last'.op = "call"
          /\ (pc' = "call_read" /\ pc' # pc) => pc \in {"idle", "call_write"}
          /\ (pc' # pc /\ (pc \in {"call_write", "call_read"} \/ pc' = "call_read")) =>
                /\ active_processes' = active_processes
                /\ proc_state' = proc_state]_vars

\* a call read nothing from a child that is still running and returned
C33_Witness ==
    /\ last.op = "call" /\ last.ret = "no_response" /\ last.didread
    /\ Alive(last.pid) /\ pc = "idle"
    /\ Count(last.pid, "w_call") = 1 /\ Count(last.pid, "read") = 2

\* C34: the environment handed to Popen has every variable of the server's
\* configured env with its configured value and every other variable of
\* os.environ with its inherited value, and nothing else; os.environ and the
\* env stored in servers stay what they were.
C34_ChildEnvIsOverlay ==
    /\ [](pc = "hs_write_init" =>
             LET cfg == server_env[cur.w][cur.name] IN
             /\ DOMAIN cur.env = DOMAIN os_environ \cup DOMAIN cfg
             /\ \A v \in DOMAIN cfg : cur.env[v] = cfg[v]
             /\ \A v \in DOMAIN os_environ \ DOMAIN cfg : cur.env[v] = os_environ[v])
    /\ [](/\ os_environ = ParentEnv
          /\ \A w \in Wrappers :
                mcp_connector[w] => server_env[w] = [n \in Configured |-> ConfigEnv(n)])
    /\ [][/\ os_environ' = os_environ
          /\ \A w \in Wrappers :
                (mcp_connector[w] /\ ~TornDown(w)) => server_env'[w] = server_env[w]]_vars

\* a child was spawned with one inherited variable overridden, one
\* inherited unchanged and one added by the configuration
C34_Witness ==
    /\ pc = "hs_write_init" /\ cur.name = "excel"
    /\ cur.env = [v \in {"PATH", "TOKEN", "EXTRA"} |->
                    CASE v = "PATH" -> "/usr/bin"
                      [] v = "TOKEN" -> "configured"
                      [] v = "EXTRA" -> "1"]
    /\ os_environ["TOKEN"] = "inherited"

\* C35: start_server for a name that is not in servers returns False,
\* starts no process and leaves active_processes as it was, and
\* get_server_status for that name is "not_configured" before and after.
C35_UnknownNameStartsNothing ==
    /\ []((last.op = "start" /\ last.name \notin Configured) =>
             /\ last.ret = "false" /\ last.pid = NoProc
             /\ StatusValue(last.w, last.name) = "not_configured")
    /\ [][\A w \in Wrappers, n \in Unconfigured :
            (\E ok \in BOOLEAN : StartServer(w, n, ok)) =>
               /\ last'.ret = "false" /\ pc' = "idle"
               /\ StatusValue(w, n) = "not_configured"
               /\ (StatusValue(w, n) = "not_configured")'
               /\ UNCHANGED <<facadeVars, procVars>>]_vars

\* start_server refused an unknown name while a configured server ran
C35_Witness ==
    /\ last.op = "start" /\ last.name \in Unconfigured /\ last.ret = "false"
    /\ \E n \in Configured : Registered(last.w, n) /\ Alive(Handle(last.w, n))

\* C36: a stop_server in which terminating the process raises returns
\* False and changes nothing: the handle stays registered and the process
\* keeps running; and a stop_server or stop_all_servers that follows calls
\* terminate on that process again.
C36_FailedStopKeepsHandle ==
    /\ []((last.op = "stop" /\ last.ret = "false") =>
             /\ last.out = "raise" /\ last.pid # NoProc
             /\ Registered(last.w, last.name)
             /\ Handle(last.w, last.name) = last.pid)
    /\ [][\A w \in Wrappers, n \in Configured :
            /\ (Registered(w, n) /\ Alive(Handle(w, n)) /\ StopServer(w, n, "raise")) =>
                  /\ last'.ret = "false"
                  /\ UNCHANGED <<facadeVars, procVars>>
            /\ (/\ last.op = "stop" /\ last.ret = "false" /\ last.w = w /\ last.name = n
                /\ Alive(last.pid)
                /\ \E o \in StopOutcomes : StopServer(w, n, o)) =>
                  /\ last'.trace # <<>> /\ last'.trace[1] = "terminate"
                  /\ last'.pid = last.pid
            /\ (/\ last.op = "stop" /\ last.ret = "false" /\ last.w = w /\ last.name = n
                /\ Alive(last.pid)
                /\ \E oc \in AllReactions(w) :
                      StopAllServers(w, oc) /\ oc[n] \in {"graceful", "killed"}) =>
                  last.pid \in last'.pids /\ proc_state'[last.pid] # "running"]_vars

\* a stop_server that failed was followed by one that terminated the process
C36_Witness ==
    /\ last.op = "stop" /\ last.again /\ last.ret = "true"
    /\ last.pid # NoProc /\ last.sigs = <<"SIGTERM">>
    /\ ~Registered(last.w, last.name)
====
